---- MODULE Spec2Model ----
(***************************************************************************)
(* cgwasm: the orchestrator of src/src/main.rs (fn main) and its replica   *)
(* worker threads, join tasks and channels.                                *)
(*                                                                         *)
(* The orchestrator is one sequential program; pc names the statement it   *)
(* executes next.  Every worker thread i has its own position wpc[i] and   *)
(* every join task its position jpc[i].  Worker threads, join tasks and    *)
(* the orchestrator interleave freely.                                     *)
(***************************************************************************)
EXTENDS Integers, Sequences, FiniteSets, TLC

\* ------------------------------------------------------------------ bounds
\* largest value of the --count argument that is explored
MaxCount == 4
\* worker threads the host lets the process create: thread creation fails
\* at the latest for the worker of this index
MaxThreads == 2
\* largest numeric value of a limit (threads-max, rlimits, pids.*) explored
MaxLimit == 8

\* the most names a cgroup.controllers file holds
MaxControllers == 4
\* most environment overrides of the pooling knobs set at once
MaxOverrides == 2

\* ------------------------------------------------------- program constants
\* usize::MAX, also the value RLIM_INFINITY takes after try_into()
USIZE_MAX == 2147483647
\* divisor of count.saturating_div(4)
HEADROOM == 4
\* factor of count.saturating_mul(4)
FAN_OUT == 4
\* u32::MAX.  The widths are scaled to the integers of the model: usize has
\* 31 bits (USIZE_MAX) and u32 has 16, narrower than usize as in the build
U32_MAX == 65535

Min(a, b) == IF a <= b THEN a ELSE b
Max(a, b) == IF a >= b THEN a ELSE b

\* the indices of the worker threads that can exist
Workers == 0 .. (MaxThreads - 1)

\* ----------------------------------------------------- files and rlimits
\* The text of a small kernel file: one token followed by a newline.
NumText(n) == [tok |-> "num", val |-> n, nl |-> TRUE]
MaxText    == [tok |-> "max", val |-> 0, nl |-> TRUE]
JunkText   == [tok |-> "junk", val |-> 0, nl |-> TRUE]
NoText     == [tok |-> "none", val |-> 0, nl |-> FALSE]

\* io::Result<String> of fs::read_to_string
ReadOk(t)    == [kind |-> "ok", text |-> t]
ReadNotFound == [kind |-> "notfound", text |-> NoText]
ReadIoErr    == [kind |-> "ioerr", text |-> NoText]

\* str::trim
Trim(t) == [t EXCEPT !.nl = FALSE]

\* str::parse::<usize>: digits only, no surrounding whitespace
ParseUsize(t) ==
    IF t.tok = "num" /\ ~t.nl /\ t.val >= 0 /\ t.val <= USIZE_MAX
    THEN [ok |-> TRUE, v |-> t.val]
    ELSE [ok |-> FALSE, v |-> 0]

\* io::Result<u64> of rlimit::Resource::get_soft
RlimOk(v) == [ok |-> TRUE, v |-> v]
RlimErr   == [ok |-> FALSE, v |-> 0]

\* u64 -> usize: try_into().unwrap_or(usize::MAX)
TryIntoUsize(v) == IF v <= USIZE_MAX THEN v ELSE USIZE_MAX

\* usize::saturating_sub
SaturatingSub(a, b) == IF b >= a THEN 0 ELSE a - b

\* count.saturating_div(4).max(1) without the floor of one
FinalCountNoFloor(c) == c \div HEADROOM

\* count.saturating_div(4).max(1)
FinalCount(c) == Max(c \div HEADROOM, 1)

\* the pids bound computed with max in place of min
PidsBoundWidened(c, pm, pcur) ==
    LET m == Trim(pm.text) IN
    IF pm.kind # "ok" \/ m.tok = "max" THEN [ok |-> TRUE, v |-> c]
    ELSE IF ~ParseUsize(m).ok THEN [ok |-> FALSE, v |-> 0]
    ELSE IF pcur.kind = "ok"
         THEN IF ~ParseUsize(Trim(pcur.text)).ok THEN [ok |-> FALSE, v |-> 0]
              ELSE [ok |-> TRUE,
                    v |-> Max(c, SaturatingSub(ParseUsize(m).v,
                                               ParseUsize(Trim(pcur.text)).v))]
    ELSE IF pcur.kind = "notfound" THEN [ok |-> TRUE, v |-> Max(c, ParseUsize(m).v)]
    ELSE [ok |-> TRUE, v |-> c]

\* the pids bound without the Ok("max") arm: every contents is parsed
PidsBoundNoMaxArm(c, pm, pcur) ==
    LET m == Trim(pm.text) IN
    IF pm.kind # "ok" THEN [ok |-> TRUE, v |-> c]
    ELSE IF ~ParseUsize(m).ok THEN [ok |-> FALSE, v |-> 0]
    ELSE IF pcur.kind = "ok"
         THEN IF ~ParseUsize(Trim(pcur.text)).ok THEN [ok |-> FALSE, v |-> 0]
              ELSE [ok |-> TRUE,
                    v |-> Min(c, SaturatingSub(ParseUsize(m).v,
                                               ParseUsize(Trim(pcur.text)).v))]
    ELSE IF pcur.kind = "notfound" THEN [ok |-> TRUE, v |-> Min(c, ParseUsize(m).v)]
    ELSE [ok |-> TRUE, v |-> c]

\* match pids_max.as_deref().map(str::trim) { ... }: the count bounded by the
\* cgroup's pids accounting; ok = FALSE when a parse error aborts startup
PidsBound(c, pm, pcur) ==
    LET m == Trim(pm.text) IN
    IF pm.kind # "ok" THEN [ok |-> TRUE, v |-> c]
    ELSE IF m.tok = "max" THEN [ok |-> TRUE, v |-> c]
    ELSE IF ~ParseUsize(m).ok THEN [ok |-> FALSE, v |-> 0]
    ELSE IF pcur.kind = "ok"
         THEN IF ~ParseUsize(Trim(pcur.text)).ok THEN [ok |-> FALSE, v |-> 0]
              ELSE [ok |-> TRUE,
                    v |-> Min(c, SaturatingSub(ParseUsize(m).v,
                                               ParseUsize(Trim(pcur.text)).v))]
    ELSE IF pcur.kind = "notfound" THEN [ok |-> TRUE, v |-> Min(c, ParseUsize(m).v)]
    ELSE [ok |-> TRUE, v |-> c]

\* the else branch of let count = if let Some(count) = count: the replica
\* count derived from a probe b and the NOFILE limit nf
DeriveCount(b, nf) ==
    IF b.threads_max.kind # "ok"
    THEN [ok |-> FALSE, v |-> 0, cause |-> "failed to read /proc/sys/kernel/threads-max"]
    ELSE IF ~ParseUsize(Trim(b.threads_max.text)).ok
    THEN [ok |-> FALSE, v |-> 0, cause |-> "failed to parse /proc/sys/kernel/threads-max contents"]
    ELSE IF ~b.nproc.ok
    THEN [ok |-> FALSE, v |-> 0, cause |-> "failed to get NPROC rlimit"]
    ELSE LET c == Min(Min(ParseUsize(Trim(b.threads_max.text)).v,
                          TryIntoUsize(b.nproc.v)),
                      TryIntoUsize(nf))
             p == PidsBound(c, b.pids_max, b.pids_current)
         IN IF ~p.ok
            THEN [ok |-> FALSE, v |-> 0, cause |-> "failed to parse pids file contents"]
            ELSE [ok |-> TRUE, v |-> FinalCount(p.v), cause |-> ""]

\* ------------------------------------------------------------ input sets
LimitValues == 0 .. MaxLimit
RlimValues  == LimitValues \cup {USIZE_MAX}
NumFiles    == {ReadOk(NumText(n)) : n \in LimitValues}

NoProbe == [threads_max |-> ReadNotFound, nproc |-> RlimErr,
            pids_max |-> ReadNotFound, pids_current |-> ReadNotFound]

\* every probe result within the bounds
AllProbes ==
    [threads_max  : NumFiles \cup {ReadOk(JunkText), ReadIoErr},
     nproc        : {RlimOk(v) : v \in RlimValues} \cup {RlimErr},
     pids_max     : NumFiles \cup {ReadOk(MaxText), ReadOk(JunkText),
                                   ReadNotFound, ReadIoErr},
     pids_current : NumFiles \cup {ReadOk(JunkText), ReadNotFound, ReadIoErr}]

\* the probe results the runs of the whole program read: ample limits, all
\* limits 1, and an unreadable threads-max
RunProbes ==
    {[threads_max |-> ReadOk(NumText(MaxLimit)), nproc |-> RlimOk(USIZE_MAX),
      pids_max |-> ReadOk(MaxText), pids_current |-> ReadOk(NumText(1))],
     [threads_max |-> ReadOk(NumText(1)), nproc |-> RlimOk(1),
      pids_max |-> ReadOk(NumText(1)), pids_current |-> ReadOk(NumText(1))],
     [threads_max |-> ReadIoErr, nproc |-> RlimOk(1),
      pids_max |-> ReadNotFound, pids_current |-> ReadNotFound]}

AllNofile == {RlimOk(v) : v \in RlimValues} \cup {RlimErr}
RunNofile == {RlimOk(MaxLimit), RlimOk(1), RlimErr}

\* ------------------------------------------------------------ environment
\* Result<String, VarError> of env::var
EnvText(t)    == [kind |-> "text", text |-> t]
EnvNotPresent == [kind |-> "notpresent", text |-> NoText]
EnvNotUnicode == [kind |-> "notunicode", text |-> NoText]

\* u32::from_str: digits only, within the range of u32
ParseU32(t) ==
    IF t.tok = "num" /\ ~t.nl /\ t.val >= 0 /\ t.val <= U32_MAX
    THEN [ok |-> TRUE, v |-> t.val]
    ELSE [ok |-> FALSE, v |-> 0]

\* fn getenv::<u32>: Some(v) for a value that parses, None otherwise
getenv(x) ==
    IF x.kind = "text" /\ ParseU32(x.text).ok
    THEN [some |-> TRUE, v |-> ParseU32(x.text).v]
    ELSE [some |-> FALSE, v |-> 0]

\* the count knobs of PoolingAllocationConfig that new_pooling_config sizes
\* from its argument; the knobs without an else branch keep wasmtime's
\* defaults and are left out
Knobs == {"total_component_instances", "total_memories", "total_tables",
          "total_stacks", "total_core_instances", "total_gc_heaps"}

\* usize::saturating_mul
SaturatingMul(a, b) == IF a > USIZE_MAX \div b THEN USIZE_MAX ELSE a * b

\* the argument of new_pooling_config, were the product cast with `as u32`
PoolInstancesWrapping(c) == SaturatingMul(c, FAN_OUT) % (U32_MAX + 1)

\* count.saturating_mul(4).try_into().unwrap_or(u32::MAX)
PoolInstances(c) ==
    IF SaturatingMul(c, FAN_OUT) <= U32_MAX
    THEN SaturatingMul(c, FAN_OUT) ELSE U32_MAX

\* fn new_pooling_config(instances), the knobs of Knobs only
new_pooling_config(instances, e) ==
    [k \in Knobs |-> IF getenv(e[k]).some THEN getenv(e[k]).v ELSE instances]

\* no pooling configuration: InstanceAllocationStrategy::OnDemand, or none yet
NoPool == [k \in Knobs |-> 0]

\* the environment of the runs of the whole program: no override is set
NoEnv == [k \in Knobs |-> EnvNotPresent]

\* the values an override variable takes: unset, not UTF-8, numbers in
\* range, a number with a trailing newline, a word, a number out of range
EnvValues ==
    {EnvNotPresent, EnvNotUnicode,
     EnvText(Trim(NumText(3))), EnvText(Trim(NumText(U32_MAX))),
     EnvText(NumText(3)), EnvText(Trim(JunkText)),
     EnvText(Trim(NumText(U32_MAX + 1)))}

\* every environment with at most MaxOverrides of the variables set
AllEnv ==
    {e \in [Knobs -> EnvValues] :
        Cardinality({k \in Knobs : e[k] # EnvNotPresent}) <= MaxOverrides}

\* the --count values of the runs that size the pool: small ones and the
\* ones around the ranges of u32 and usize
PoolCounts ==
    (1 .. MaxCount) \cup {U32_MAX \div FAN_OUT, U32_MAX \div FAN_OUT + 1,
                          USIZE_MAX \div FAN_OUT + 1, USIZE_MAX}

\* --------------------------------------------------------- controller list
\* the controllers the fold recognises
Supported == {"cpuset", "cpu", "pids"}

\* one step of the fold closure |mut s, c|: a string is the sequence of the
\* pieces pushed onto it
PushController(s, c) ==
    IF c \in Supported
    THEN IF s = <<>> THEN <<"+" \o c>> ELSE s \o <<" ", "+" \o c>>
    ELSE s

\* controllers.split_whitespace().fold(String::with_capacity(..), ..)
RECURSIVE FoldControllers(_, _)
FoldControllers(cs, s) ==
    IF cs = <<>> THEN s
    ELSE FoldControllers(Tail(cs), PushController(s, Head(cs)))

\* the cgroup.controllers contents the runs of the whole program read
RunControllers == {<<"cpuset", "cpu", "io", "memory", "pids">>, <<"memory">>}

\* the controller names a cgroup.controllers file may hold
Offered == {"cpuset", "cpu", "io", "memory", "pids"}

\* every cgroup.controllers contents of at most MaxControllers names, each
\* name at most once, in any order
AllControllers ==
    {cs \in UNION {[1 .. n -> Offered] : n \in 0 .. MaxControllers} :
        \A a, b \in DOMAIN cs : cs[a] = cs[b] => a = b}

\* ------------------------------------------------------------------ state
VARIABLES
    pc,           \* the statement of main the orchestrator executes next
    err,          \* the context of the error main returned, "" if none
    args_count,   \* Args::count, 0 for None
    nofile,       \* let nofile (io::Result unwrapped by ?)
    probe,        \* threads_max, nproc, pids_current, pids_max of the else block
    count,        \* let count
    controllers,  \* let controllers: the enable string
    hier,         \* the cgroup operations done on the root and on cgwasm, in order
    strategy,     \* the allocation strategy of engine_config
    pool,         \* the count knobs of the pooling configuration, NoPool if none
    env,          \* the override variables of the process environment
    user_ns,      \* calls of unshare(CLONE_NEWUSER) that succeeded
    sched,        \* the threads of the root Tokio runtime exist
    attempts,     \* calls of wasmtime::Engine::new made
    i,            \* the loop variable of `for i in 0..count`, also tasks.len()
    spawn_failed, \* the loop was left by `break`
    compiled,     \* calls of Component::new made
    j,            \* tasks already awaited by `for task in tasks`
    wasm_buf,     \* the values sent on wasm_tx so far, oldest first
    sent_rx,      \* the receivers alive when wasm_tx.send(pre) returned Ok
    rx_next,      \* rx_next[w]: the position wasm_rx of worker w reads next
    rx_alive,     \* rx_alive[w]: wasm_rx of worker w exists and is not dropped
    done,         \* done[w]: the oneshot channel of worker w
    wpc,          \* wpc[w]: the statement worker thread w executes next
    leaf,         \* leaf[w]: how far the leaf cgroup of worker w is set up
    ns,           \* ns[w]: worker thread w has unshared its namespaces
    got,          \* got[w]: the values wasm_rx.recv() has returned to worker w
    res,          \* res[w]: let res of worker w (the result of rt.block_on)
    ret,          \* ret[w]: what thread w returned to JoinHandle::join
    jpc           \* jpc[w]: the position of the join task of worker w

startVars == <<args_count, nofile, probe, count>>
procVars == <<env, user_ns, sched>>
engineVars == <<strategy, pool, procVars>>
setupVars == <<controllers, hier, engineVars, attempts>>
loopVars  == <<i, spawn_failed, compiled, j>>
chanVars  == <<wasm_buf, sent_rx, rx_next, rx_alive, done>>
workVars  == <<wpc, leaf, ns, got, res, ret>>
vars == <<pc, err, startVars, setupVars, loopVars, chanVars, workVars, jpc>>

\* everything but the orchestrator's position and the start-up values
laterVars == <<setupVars, loopVars, chanVars, workVars, jpc>>

\* the state main starts in, for --count in counts (0 for none) and the
\* environment in envs
Start(counts, envs) ==
    /\ pc = "unshare_user"
    /\ err = ""
    /\ args_count \in counts
    /\ env \in envs
    /\ pool = NoPool
    /\ user_ns = 0
    /\ sched = FALSE
    /\ nofile = RlimErr
    /\ probe = NoProbe
    /\ count = 0
    /\ controllers = <<>>
    /\ hier = <<>>
    /\ strategy = "unset"
    /\ attempts = 0
    /\ i = 0
    /\ spawn_failed = FALSE
    /\ compiled = 0
    /\ j = 0
    /\ wasm_buf = <<>>
    /\ sent_rx = {}
    /\ rx_next = [w \in Workers |-> 0]
    /\ rx_alive = [w \in Workers |-> FALSE]
    /\ done = [w \in Workers |-> "none"]
    /\ wpc = [w \in Workers |-> "none"]
    /\ leaf = [w \in Workers |-> "none"]
    /\ ns = [w \in Workers |-> FALSE]
    /\ got = [w \in Workers |-> <<>>]
    /\ res = [w \in Workers |-> "none"]
    /\ ret = [w \in Workers |-> "none"]
    /\ jpc = [w \in Workers |-> "none"]

\* Args::parse(): count is an Option<NonZeroUsize>
Init == Start(0 .. MaxCount, {NoEnv})

\* the tail position of the broadcast channel
wasm_tail == Len(wasm_buf)

\* main has returned: the process exits and takes every thread with it
Exited == pc \in {"ok", "err"}

\* the ? operator: main returns the error with its context
Abort(cause) ==
    /\ pc' = "err"
    /\ err' = cause

\* unshare(CloneFlags::CLONE_NEWUSER) with its error ignored
UnshareUserIgnoringFailure ==
    /\ pc = "unshare_user"
    /\ \/ pc' = "nofile" /\ err' = err /\ user_ns' = user_ns + 1
       \/ pc' = "nofile" /\ err' = err /\ user_ns' = user_ns
    /\ UNCHANGED <<startVars, controllers, hier, strategy, pool, env, sched,
                   attempts, loopVars, chanVars, workVars, jpc>>

\* unshare(CloneFlags::CLONE_NEWUSER)
UnshareUser ==
    /\ pc = "unshare_user"
    /\ \/ pc' = "nofile" /\ err' = err /\ user_ns' = user_ns + 1
       \/ Abort("failed to unshare user namespace") /\ user_ns' = user_ns
    /\ UNCHANGED <<startVars, controllers, hier, strategy, pool, env, sched,
                   attempts, loopVars, chanVars, workVars, jpc>>

\* rlimit::Resource::NOFILE.get_soft()
GetNofile(limits) ==
    /\ pc = "nofile"
    /\ \E r \in limits :
          IF r.ok
          THEN pc' = "rt_build" /\ err' = err /\ nofile' = r
          ELSE Abort("failed to get NOFILE rlimit") /\ nofile' = nofile
    /\ UNCHANGED <<args_count, probe, count, laterVars>>

\* tokio::runtime::Builder::new_multi_thread()...build()
BuildRuntime ==
    /\ pc = "rt_build"
    /\ \/ pc' = "read_inputs" /\ err' = err /\ sched' = TRUE
       \/ Abort("failed to build root Tokio runtime") /\ sched' = sched
    /\ UNCHANGED <<startVars, controllers, hier, strategy, pool, env, user_ns,
                   attempts, loopVars, chanVars, workVars, jpc>>

\* try_join!(cgroup path, fs::read(&wasm))
ReadInputs ==
    /\ pc = "read_inputs"
    /\ \/ pc' = "count" /\ err' = err
       \/ Abort("failed to read /proc/self/cgroup")
       \/ Abort("process does not run within cgroup v2")
       \/ Abort("failed to read wasm")
    /\ UNCHANGED <<startVars, laterVars>>

\* let count = if let Some(count) = count { count.into() } else { ... }
Probe(probes) ==
    /\ pc = "count"
    /\ IF args_count # 0
       THEN /\ count' = args_count
            /\ pc' = "controllers" /\ err' = err
            /\ probe' = probe
       ELSE \E b \in probes :
            /\ probe' = b
            /\ IF DeriveCount(b, nofile.v).ok
               THEN /\ count' = DeriveCount(b, nofile.v).v
                    /\ pc' = "controllers" /\ err' = err
               ELSE /\ count' = count
                    /\ Abort(DeriveCount(b, nofile.v).cause)
    /\ UNCHANGED <<args_count, nofile, laterVars>>

\* fs::read_to_string(cg.join("cgroup.controllers")) and the fold over it;
\* the Option count, threads_max, nproc and the pids files are out of scope
\* here, and nofile is not used again
ReadControllers(lists) ==
    /\ pc = "controllers"
    /\ \/ \E cs \in lists :
             /\ controllers' = cs
             /\ pc' = "fold" /\ err' = err
       \/ /\ Abort("failed to read cgroup.controllers")
          /\ controllers' = controllers
    /\ args_count' = 0
    /\ nofile' = RlimErr
    /\ probe' = NoProbe
    /\ UNCHANGED <<count, hier, engineVars, attempts,
                   loopVars, chanVars, workVars, jpc>>

\* let controllers = controllers.split_whitespace().fold(..): the second
\* binding shadows the file contents
FoldStep ==
    /\ pc = "fold"
    /\ controllers' = FoldControllers(controllers, <<>>)
    /\ pc' = "root_subtree" /\ err' = err
    /\ UNCHANGED <<startVars, hier, engineVars, attempts,
                   loopVars, chanVars, workVars, jpc>>

\* one fs operation of the root / cgwasm set-up: op is appended to hier when
\* it succeeds, otherwise main returns the error
HierStep(from, op, to, cause) ==
    /\ pc = from
    /\ \/ /\ hier' = Append(hier, op)
          /\ pc' = to /\ err' = err
       \/ /\ Abort(cause)
          /\ hier' = hier
    /\ UNCHANGED <<startVars, engineVars, attempts, loopVars, chanVars, workVars, jpc>>

\* fs::write(cg.join("cgroup.subtree_control"), &controllers)
WriteRootSubtree ==
    /\ HierStep("root_subtree", "root.subtree_control", "mid_create",
             "failed to enable threaded controllers in cgwasm cgroup")
    /\ controllers' = controllers

\* fs::create_dir_all(&cg) for cg = cg.join("cgwasm")
CreateMid ==
    /\ HierStep("mid_create", "mid.create", "mid_type",
             "failed to create cgwasm cgroup")
    /\ controllers' = controllers

\* fs::write(cg.join("cgroup.type"), "threaded")
TypeMid ==
    /\ HierStep("mid_type", "mid.type", "mid_procs",
             "failed to set cgwasm group type to threaded")
    /\ controllers' = controllers

\* fs::write(cg.join("cgroup.procs"), pid.to_string())
ProcsMid ==
    /\ HierStep("mid_procs", "mid.procs", "mid_subtree",
             "failed to add PID to cgwasm cgroup")
    /\ controllers' = controllers

\* fs::write(cg.join("cgroup.subtree_control"), &controllers), the last use
\* of controllers
WriteMidSubtree ==
    /\ HierStep("mid_subtree", "mid.subtree_control", "engine",
                "failed to enable threaded controllers in cgwasm cgroup")
    /\ controllers' = <<>>

\* the strategy forced by the fallback, were it the one that just failed
RetryStrategySame(s) == s

\* the strategy forced by the fallback of the Err(err) arm
RetryStrategy(s) == "OnDemand"

\* if let Ok(true) = use_pooling_allocator_by_default() { Pooling } else
\* { OnDemand }, then the first wasmtime::Engine::new(&engine_config)
EngineNew ==
    /\ pc = "engine"
    /\ \E pooling \in BOOLEAN :
          /\ strategy' = IF pooling THEN "Pooling" ELSE "OnDemand"
          /\ pool' = IF pooling
                     THEN new_pooling_config(PoolInstances(count), env)
                     ELSE NoPool
    /\ UNCHANGED procVars
    /\ attempts' = attempts + 1
    /\ \/ pc' = "spawn"
       \/ pc' = "engine_retry"
    /\ err' = err
    /\ UNCHANGED <<startVars, controllers, hier, loopVars, chanVars, workVars, jpc>>

\* the Err(err) arm: force OnDemand and call Engine::new once more
EngineRetry ==
    /\ pc = "engine_retry"
    /\ strategy' = RetryStrategy(strategy)
    /\ pool' = NoPool
    /\ UNCHANGED procVars
    /\ attempts' = attempts + 1
    /\ \/ pc' = "spawn" /\ err' = err
       \/ Abort("failed to construct engine")
    /\ UNCHANGED <<startVars, controllers, hier, loopVars, chanVars, workVars, jpc>>

\* ------------------------------------------------------------ fan-out
\* the position after an iteration, were the loop left after the first one
AfterSpawnCompileEarly(k) == "compile"

\* the position after the k-th iteration of `for i in 0..count`
AfterSpawn(k) == IF k < count THEN "spawn" ELSE "compile"

\* one iteration of the spawn loop that succeeds: wasm_tx.subscribe() (the
\* new receiver reads from the current tail), oneshot::channel(),
\* thread::Builder::spawn, tasks.push(rt.spawn(..))
Spawn(w) ==
    /\ pc = "spawn"
    /\ w = i
    /\ i < count
    /\ i < MaxThreads
    /\ rx_next' = [rx_next EXCEPT ![w] = wasm_tail]
    /\ rx_alive' = [rx_alive EXCEPT ![w] = TRUE]
    /\ done' = [done EXCEPT ![w] = "pending"]
    /\ wpc' = [wpc EXCEPT ![w] = "mkdir"]
    /\ jpc' = [jpc EXCEPT ![w] = "await"]
    /\ i' = i + 1
    /\ pc' = AfterSpawn(i + 1)
    /\ err' = err
    /\ UNCHANGED <<startVars, setupVars, spawn_failed, compiled, j,
                   wasm_buf, sent_rx, leaf, ns, got, res, ret>>

\* a thread-creation failure that makes main return the error
SpawnFailFatal ==
    /\ pc = "spawn"
    /\ i < count
    /\ spawn_failed' = TRUE
    /\ Abort("failed to create thread")
    /\ UNCHANGED <<startVars, setupVars, i, compiled, j, chanVars, workVars, jpc>>

\* the else branch of `let Ok(task) = ... else`: the closure is dropped
\* with the wasm_rx and done_tx it owns, and the loop is left
SpawnFail ==
    /\ pc = "spawn"
    /\ i < count
    /\ spawn_failed' = TRUE
    /\ pc' = "compile"
    /\ err' = err
    /\ UNCHANGED <<startVars, setupVars, i, compiled, j, chanVars, workVars, jpc>>

\* Component::new(&engine, wasm)
Compile ==
    /\ pc = "compile"
    /\ compiled' = compiled + 1
    /\ \/ pc' = "link" /\ err' = err
       \/ Abort("failed to compile component")
    /\ UNCHANGED <<startVars, setupVars, i, spawn_failed, j, chanVars, workVars, jpc>>

\* Linker::new .. CommandPre::new(pre)
Link ==
    /\ pc = "link"
    /\ \/ pc' = "send" /\ err' = err
       \/ Abort("failed to link WASI")
       \/ Abort("failed to pre-instantiate component")
       \/ Abort("component does not export wasi:cli/command")
    /\ UNCHANGED <<startVars, setupVars, loopVars, chanVars, workVars, jpc>>

\* the receiver count of a channel whose first receiver was kept
ReceiverCountKeepFirst == Cardinality({w \in Workers : rx_alive[w]}) + 1

\* the receivers of the broadcast channel: `let (wasm_tx, _)` drops the one
\* the channel is created with, the others are the workers' wasm_rx
ReceiverCount == Cardinality({w \in Workers : rx_alive[w]})

\* the position after k tasks of `for task in tasks` were awaited
AfterJoin(k) == IF k < i THEN "join" ELSE "ok"

\* wasm_tx.send(pre): Err exactly when no receiver exists; pre is the module
\* of the compilation just made
Send ==
    /\ pc = "send"
    /\ IF ReceiverCount = 0
       THEN /\ Abort("Wasm receiver closed")
            /\ UNCHANGED <<wasm_buf, sent_rx>>
       ELSE /\ wasm_buf' = Append(wasm_buf, compiled)
            /\ sent_rx' = {w \in Workers : rx_alive[w]}
            /\ pc' = AfterJoin(0)
            /\ err' = err
    /\ UNCHANGED <<startVars, setupVars, loopVars, rx_next, rx_alive, done,
                   workVars, jpc>>

\* a join loop that returns the error of whichever task has failed, in
\* place of waiting for the next task of the vector
AwaitTaskFirstFailed ==
    /\ pc = "join"
    /\ j < i
    /\ \/ /\ jpc[j] = "ok"
          /\ j' = j + 1
          /\ pc' = AfterJoin(j + 1)
          /\ err' = err
       \/ \E k \in j .. (i - 1) :
             /\ jpc[k] \in {"err_failed", "err_panic"}
             /\ j' = j
             /\ Abort(IF jpc[k] = "err_panic" THEN "thread panicked" ELSE "thread failed")
    /\ UNCHANGED <<startVars, setupVars, i, spawn_failed, compiled,
                   chanVars, workVars, jpc>>

\* task.await.context("task panicked")?? for the next task of the vector
AwaitTask ==
    /\ pc = "join"
    /\ j < i
    /\ jpc[j] \in {"ok", "err_failed", "err_panic"}
    /\ IF jpc[j] = "ok"
       THEN /\ j' = j + 1
            /\ pc' = AfterJoin(j + 1)
            /\ err' = err
       ELSE /\ j' = j
            /\ Abort(IF jpc[j] = "err_panic" THEN "thread panicked" ELSE "thread failed")
    /\ UNCHANGED <<startVars, setupVars, i, spawn_failed, compiled,
                   chanVars, workVars, jpc>>

\* ------------------------------------------------------- worker thread w
\* an early return that leaks done_tx instead of dropping it
WorkerFailKeepDone(w) ==
    /\ wpc' = [wpc EXCEPT ![w] = "ended"]
    /\ ret' = [ret EXCEPT ![w] = "Err"]
    /\ rx_alive' = [rx_alive EXCEPT ![w] = FALSE]
    /\ done' = done

\* a ? in the set-up part of the closure: the thread returns Err, and the
\* closure's wasm_rx and done_tx are dropped without a send
WorkerFail(w) ==
    /\ wpc' = [wpc EXCEPT ![w] = "ended"]
    /\ ret' = [ret EXCEPT ![w] = "Err"]
    /\ rx_alive' = [rx_alive EXCEPT ![w] = FALSE]
    /\ done' = [done EXCEPT ![w] = "closed"]

\* the set-up statement at position from succeeded: go on at position to
WorkerGoes(w, to) ==
    /\ wpc' = [wpc EXCEPT ![w] = to]
    /\ UNCHANGED <<ret, rx_alive, done>>

\* std::fs::create_dir_all(&cg)
WMkdir(w) ==
    /\ ~Exited
    /\ wpc[w] = "mkdir"
    /\ \/ WorkerGoes(w, "type") /\ leaf' = [leaf EXCEPT ![w] = "created"]
       \/ WorkerFail(w) /\ leaf' = leaf
    /\ UNCHANGED <<pc, err, startVars, setupVars, loopVars, wasm_buf, sent_rx,
                   rx_next, ns, got, res, jpc>>

\* the write of cgroup.type with its error ignored
WTypeIgnoringFailure(w) ==
    /\ ~Exited
    /\ wpc[w] = "type"
    /\ \/ WorkerGoes(w, "threads") /\ leaf' = [leaf EXCEPT ![w] = "typed"]
       \/ WorkerGoes(w, "threads") /\ leaf' = leaf
    /\ UNCHANGED <<pc, err, startVars, setupVars, loopVars, wasm_buf, sent_rx,
                   rx_next, ns, got, res, jpc>>

\* std::fs::write(cg.join("cgroup.type"), b"threaded")
WType(w) ==
    /\ ~Exited
    /\ wpc[w] = "type"
    /\ \/ WorkerGoes(w, "threads") /\ leaf' = [leaf EXCEPT ![w] = "typed"]
       \/ WorkerFail(w) /\ leaf' = leaf
    /\ UNCHANGED <<pc, err, startVars, setupVars, loopVars, wasm_buf, sent_rx,
                   rx_next, ns, got, res, jpc>>

\* std::fs::write(cg.join("cgroup.threads"), tid.to_string())
WThreads(w) ==
    /\ ~Exited
    /\ wpc[w] = "threads"
    /\ \/ WorkerGoes(w, "unshare") /\ leaf' = [leaf EXCEPT ![w] = "joined"]
       \/ WorkerFail(w) /\ leaf' = leaf
    /\ UNCHANGED <<pc, err, startVars, setupVars, loopVars, wasm_buf, sent_rx,
                   rx_next, ns, got, res, jpc>>

\* unshare(CLONE_NEWIPC | CLONE_NEWNET | CLONE_NEWNS | CLONE_NEWUTS)
WUnshare(w) ==
    /\ ~Exited
    /\ wpc[w] = "unshare"
    /\ \/ WorkerGoes(w, "rt_build") /\ ns' = [ns EXCEPT ![w] = TRUE]
       \/ WorkerFail(w) /\ ns' = ns
    /\ UNCHANGED <<pc, err, startVars, setupVars, loopVars, wasm_buf, sent_rx,
                   rx_next, leaf, got, res, jpc>>

\* the runtime build followed by a subscribe() made on the worker's thread
WRtBuildSubscribeLate(w) ==
    /\ ~Exited
    /\ wpc[w] = "rt_build"
    /\ \/ WorkerGoes(w, "recv") /\ rx_next' = [rx_next EXCEPT ![w] = wasm_tail]
       \/ WorkerFail(w) /\ rx_next' = rx_next
    /\ UNCHANGED <<pc, err, startVars, setupVars, loopVars, wasm_buf, sent_rx,
                   leaf, ns, got, res, jpc>>

\* tokio::runtime::Builder::new_current_thread()...build()
WRtBuild(w) ==
    /\ ~Exited
    /\ wpc[w] = "rt_build"
    /\ \/ WorkerGoes(w, "recv")
       \/ WorkerFail(w)
    /\ UNCHANGED <<pc, err, startVars, setupVars, loopVars, wasm_buf, sent_rx,
                   rx_next, leaf, ns, got, res, jpc>>

\* wasm_rx.recv().await returning Ok: the value at the receiver's position
\* has been sent.  (Closed needs every sender dropped and wasm_tx lives as
\* long as main; Lagged needs more sends than the capacity of 1.)
WRecv(w) ==
    /\ ~Exited
    /\ wpc[w] = "recv"
    /\ rx_next[w] < wasm_tail
    /\ rx_next' = [rx_next EXCEPT ![w] = rx_next[w] + 1]
    /\ got' = [got EXCEPT ![w] = Append(got[w], wasm_buf[rx_next[w] + 1])]
    /\ wpc' = [wpc EXCEPT ![w] = "inst"]
    /\ UNCHANGED <<pc, err, startVars, setupVars, loopVars, wasm_buf, sent_rx,
                   rx_alive, done, leaf, ns, res, ret, jpc>>

\* Store::new and wasm.instantiate_async(&mut store); an Err ends the async
\* block, whose value becomes res
WInstantiate(w) ==
    /\ ~Exited
    /\ wpc[w] = "inst"
    /\ \/ wpc' = [wpc EXCEPT ![w] = "run"] /\ res' = res
       \/ /\ wpc' = [wpc EXCEPT ![w] = "signal"]
          /\ res' = [res EXCEPT ![w] = "Err(instantiate)"]
    /\ UNCHANGED <<pc, err, startVars, setupVars, loopVars, chanVars,
                   leaf, ns, got, ret, jpc>>

\* wasm.wasi_cli_run().call_run(&mut store): the entry point returns Ok(())
\* or Err(()), or the call fails, or the thread panics in it (the unwinding
\* drops wasm_rx and done_tx)
WRun(w) ==
    /\ ~Exited
    /\ wpc[w] = "run"
    /\ \/ /\ wpc' = [wpc EXCEPT ![w] = "signal"]
          /\ \E r \in {"Ok(Ok)", "Ok(Err)", "Err(run)"} : res' = [res EXCEPT ![w] = r]
          /\ UNCHANGED <<ret, rx_alive, done>>
       \/ /\ wpc' = [wpc EXCEPT ![w] = "ended"]
          /\ ret' = [ret EXCEPT ![w] = "panic"]
          /\ rx_alive' = [rx_alive EXCEPT ![w] = FALSE]
          /\ done' = [done EXCEPT ![w] = "closed"]
          /\ res' = res
    /\ UNCHANGED <<pc, err, startVars, setupVars, loopVars, wasm_buf, sent_rx,
                   rx_next, leaf, ns, got, jpc>>

\* done_tx.send(()): Ok, as done_rx is owned by the join task, which is
\* dropped only with the runtime
WSignal(w) ==
    /\ ~Exited
    /\ wpc[w] = "signal"
    /\ done' = [done EXCEPT ![w] = "sent"]
    /\ wpc' = [wpc EXCEPT ![w] = "return"]
    /\ UNCHANGED <<pc, err, startVars, setupVars, loopVars, wasm_buf, sent_rx,
                   rx_next, rx_alive, leaf, ns, got, res, ret, jpc>>

\* anyhow::Ok(res): the thread returns Ok whatever res is
WReturn(w) ==
    /\ ~Exited
    /\ wpc[w] = "return"
    /\ wpc' = [wpc EXCEPT ![w] = "ended"]
    /\ ret' = [ret EXCEPT ![w] = "Ok"]
    /\ rx_alive' = [rx_alive EXCEPT ![w] = FALSE]
    /\ UNCHANGED <<pc, err, startVars, setupVars, loopVars, wasm_buf, sent_rx,
                   rx_next, done, leaf, ns, got, res, jpc>>

\* ---------------------------------------------------- join task of worker w
\* _ = done_rx.await: resolves when the value was sent or done_tx dropped
JAwaitDone(w) ==
    /\ ~Exited
    /\ jpc[w] = "await"
    /\ done[w] \in {"sent", "closed"}
    /\ jpc' = [jpc EXCEPT ![w] = "join"]
    /\ UNCHANGED <<pc, err, startVars, setupVars, loopVars, chanVars, workVars>>

\* the task's value: task.join().map_err(..)?.context("thread failed")?
\* then Ok(()), the inner res being printed only
JoinValue(r) ==
    IF r = "panic" THEN "err_panic"
    ELSE IF r = "Err" THEN "err_failed"
    ELSE "ok"

\* task.join(): returns when the thread has ended
JJoin(w) ==
    /\ ~Exited
    /\ jpc[w] = "join"
    /\ wpc[w] = "ended"
    /\ jpc' = [jpc EXCEPT ![w] = JoinValue(ret[w])]
    /\ UNCHANGED <<pc, err, startVars, setupVars, loopVars, chanVars, workVars>>

Worker(w) ==
    \/ WMkdir(w)
    \/ WType(w)
    \/ WThreads(w)
    \/ WUnshare(w)
    \/ WRtBuild(w)
    \/ WRecv(w)
    \/ WInstantiate(w)
    \/ WRun(w)
    \/ WSignal(w)
    \/ WReturn(w)

JoinTask(w) ==
    \/ JAwaitDone(w)
    \/ JJoin(w)

Next ==
    \/ UnshareUser
    \/ GetNofile(RunNofile)
    \/ BuildRuntime
    \/ ReadInputs
    \/ Probe(RunProbes)
    \/ ReadControllers(RunControllers)
    \/ FoldStep
    \/ WriteRootSubtree
    \/ CreateMid
    \/ TypeMid
    \/ ProcsMid
    \/ WriteMidSubtree
    \/ EngineNew
    \/ EngineRetry
    \/ \E w \in Workers : Spawn(w)
    \/ SpawnFail
    \/ Compile
    \/ Link
    \/ Send
    \/ AwaitTask
    \/ \E w \in Workers : Worker(w)
    \/ \E w \in Workers : JoinTask(w)

\* the whole program
Spec == Init /\ [][Next]_vars

\* the program started with --count MaxThreads
InitLive == Init /\ args_count = MaxThreads

\* that program, where the orchestrator, the worker threads and the join
\* tasks are scheduled fairly: a step stays possible only until one is taken
LiveSpec == InitLive /\ [][Next]_vars /\ WF_vars(Next)

NextProbe ==
    \/ UnshareUser
    \/ GetNofile(AllNofile)
    \/ BuildRuntime
    \/ ReadInputs
    \/ Probe(AllProbes)

\* startup up to the replica count, over every probe result within the bounds
SpecProbe == Init /\ [][NextProbe]_vars

NextControllers ==
    \/ UnshareUser
    \/ GetNofile(RunNofile)
    \/ BuildRuntime
    \/ ReadInputs
    \/ Probe(RunProbes)
    \/ ReadControllers(AllControllers)
    \/ FoldStep

NextPooling ==
    \/ UnshareUser
    \/ GetNofile(RunNofile)
    \/ BuildRuntime
    \/ ReadInputs
    \/ Probe(RunProbes)
    \/ ReadControllers(RunControllers)
    \/ FoldStep
    \/ WriteRootSubtree
    \/ CreateMid
    \/ TypeMid
    \/ ProcsMid
    \/ WriteMidSubtree
    \/ EngineNew
    \/ EngineRetry

\* the program started with an explicit count
InitPooling == Start(PoolCounts, AllEnv)

\* startup up to the engine, over the counts and the environments that
\* matter to the sizing of the pool
SpecPooling == InitPooling /\ [][NextPooling]_vars

\* startup up to the enable string, over every cgroup.controllers contents
\* within the bounds
SpecControllers == Init /\ [][NextControllers]_vars

\* ================================================================= claims
\* the workers that were spawned
Spawned == {w \in Workers : wpc[w] # "none"}

\* the join task of worker w has returned its value
Joined(w) == jpc[w] \in {"ok", "err_failed", "err_panic"}

\* the inner result of worker w is an engine-level error
EngineError(w) == res[w] \in {"Err(instantiate)", "Err(run)"}

\* C1: if a worker fails after receiving the module (instantiation fails or
\* the entry point ends with an engine-level error) the run ends in failure:
\* main never returns Ok while some worker's result carries such an error.
C1_WorkerErrorFailsRun ==
    pc = "ok" => \A w \in Spawned : ~EngineError(w)

\* C2: when main returns because a worker's join yielded a failure, every
\* other spawned worker has run to its end and has been joined.
C2_FailureLeavesOthersRunning ==
    (pc = "err" /\ err \in {"thread failed", "thread panicked"})
        => \A w \in Spawned : wpc[w] = "ended" /\ Joined(w)

\* C3: broadcast-once distribution.  One value at most is ever sent; every
\* spawned worker subscribed before it was sent, at the position of that
\* value; a worker receives at most one value, and it is the module that was
\* sent; a worker waiting after the send has the module ready to be received;
\* and no worker is past its wait point unless the module was sent and it
\* received it.
C3_BroadcastOnce ==
    /\ wasm_tail <= 1
    /\ pc = "spawn" => wasm_tail = 0
    /\ \A w \in Spawned :
          /\ rx_next[w] = Len(got[w])
          /\ Len(got[w]) <= 1
          /\ got[w] = SubSeq(wasm_buf, 1, Len(got[w]))
          /\ (wpc[w] = "recv" /\ wasm_tail = 1) => rx_next[w] < wasm_tail
          /\ (wpc[w] \in {"inst", "run", "signal", "return"} \/ res[w] # "none")
                => (wasm_tail = 1 /\ got[w] = wasm_buf)

\* a worker reaches its wait point after the send and has the module to receive
C3_Witness ==
    \E w \in Spawned : wpc[w] = "recv" /\ wasm_tail = 1 /\ pc = "join"
        /\ \E v \in Spawned : v # w /\ got[v] = wasm_buf /\ wpc[v] = "ended"

\* C4: the orchestrator never blocks for ever on a worker that has ended.
\* Once a worker thread has ended (it returned from any statement, or it
\* panicked) its completion channel is resolved, by a send or by the drop of
\* done_tx, so the wait on it returns; and under fair scheduling every run
\* terminates: main returns, no wait or join holds it for ever.
C4_NoBlockingOnEndedWorker ==
    /\ [](\A w \in Workers : wpc[w] = "ended" => done[w] \in {"sent", "closed"})
    /\ <>Exited

\* main has awaited the join task of a worker whose set-up failed without a
\* send on done_tx, and the one of a worker that panicked
C4_Witness ==
    /\ Exited
    /\ j = 1
    /\ \E w \in Spawned : done[w] = "closed" /\ ret[w] = "panic" /\ jpc[w] = "err_panic"
    /\ \E w \in Spawned : done[w] = "sent" /\ jpc[w] = "ok"

\* C5: when the run ends in success, every spawned worker has received the
\* module, has signalled completion and has been joined, and no fatal error
\* occurred (main returned no error, no worker failed).
C5_SuccessMeansAllSucceeded ==
    pc = "ok" =>
        /\ err = ""
        /\ \A w \in Spawned :
              /\ got[w] = wasm_buf /\ wasm_tail = 1
              /\ done[w] = "sent"
              /\ jpc[w] = "ok"
              /\ ~EngineError(w)

\* C6: workers are spawned in index order; after a thread-creation failure
\* at index k >= 1 no further worker is spawned, the workers and the join
\* tasks are exactly those of 0..k-1, the module is still compiled, and the
\* run then fails only if compiling, linking or one of those workers failed;
\* when it succeeds exactly those workers were sent the module and joined.
C6_SpawnFailureReducesCapacity ==
    /\ Spawned = 0 .. (i - 1)
    /\ \A w \in Workers : jpc[w] # "none" <=> w \in Spawned
    /\ spawn_failed => (pc # "spawn" /\ i < count)
    /\ (spawn_failed /\ i >= 1) =>
          /\ Exited => compiled = 1
          /\ pc = "err" =>
                \/ err \in {"failed to compile component", "failed to link WASI",
                            "failed to pre-instantiate component",
                            "component does not export wasi:cli/command"}
                \/ /\ err = "Wasm receiver closed"
                   /\ \A w \in Spawned : ret[w] = "Err"
                \/ /\ err = "thread failed"
                   /\ \E w \in Spawned : ret[w] = "Err"
                \/ /\ err = "thread panicked"
                   /\ \E w \in Spawned : ret[w] = "panic"
          /\ pc = "ok" =>
                /\ wasm_tail = 1
                /\ sent_rx \subseteq Spawned
                /\ j = i
                /\ \A w \in Spawned : jpc[w] = "ok" /\ got[w] = wasm_buf

\* thread creation failed at index 2 of 4 and the run succeeded with {0, 1}
C6_Witness ==
    /\ pc = "ok"
    /\ spawn_failed
    /\ count = 4
    /\ i = 2
    /\ Spawned = {0, 1}
    /\ \A w \in Spawned : res[w] = "Ok(Ok)"

\* C7: a broadcast with no live worker subscriber fails and ends the run
\* with a fatal error: the send succeeds only when a worker's receiver is
\* alive, its failure is the error main returns, and the run never reports
\* success after a send that reached no subscriber.
C7_ZeroSubscriberSendIsFatal ==
    /\ wasm_tail = 1 => sent_rx # {}
    /\ pc = "ok" => (wasm_tail = 1 /\ sent_rx # {})
    /\ (pc = "join" \/ pc = "ok") => wasm_tail = 1
    /\ err = "Wasm receiver closed" =>
          (pc = "err" /\ wasm_tail = 0 /\ \A w \in Workers : ~rx_alive[w])

\* every spawned worker failed its set-up before the send, which then failed
C7_Witness ==
    /\ err = "Wasm receiver closed"
    /\ i = MaxThreads
    /\ \A w \in Spawned : ret[w] = "Err"

\* C8: Engine::new is called at most twice; the second call is made with
\* the on-demand strategy, only after the first failed; a failure of the
\* second call ends the run before any worker is spawned and before the
\* module is compiled; after a successful second call the run goes on with
\* the on-demand strategy.
C8_EngineFallbackOnce ==
    /\ attempts <= 2
    /\ attempts = 2 => strategy = "OnDemand"
    /\ pc = "engine_retry" => attempts = 1
    /\ pc \in {"spawn", "compile", "link", "send", "join", "ok"}
          => (attempts \in {1, 2} /\ strategy \in {"Pooling", "OnDemand"})
    /\ err = "failed to construct engine"
          => (attempts = 2 /\ Spawned = {} /\ i = 0 /\ compiled = 0)

\* pooling was selected, its construction failed, and the run completed
\* normally with the on-demand strategy
C8_Witness ==
    /\ pc = "ok"
    /\ attempts = 2
    /\ strategy = "OnDemand"
    /\ \A w \in Spawned : res[w] = "Ok(Ok)"

\* every limit of the probe is the number n
AllLimits(n) ==
    /\ probe.threads_max = ReadOk(NumText(n))
    /\ probe.nproc = RlimOk(n)
    /\ nofile = RlimOk(n)
    /\ probe.pids_max = ReadOk(NumText(n))

\* C9: whatever the limits and whatever the explicit count, the replica
\* count is at least 1; with all limits equal to 1 it is exactly 1.
C9_CountAtLeastOne ==
    pc = "controllers" =>
        /\ count >= 1
        /\ (args_count = 0 /\ AllLimits(1)) => count = 1

\* the count was derived with pids.current above pids.max, and with all
\* limits equal to 1
C9_Witness ==
    /\ pc = "controllers"
    /\ args_count = 0
    /\ AllLimits(1)
    /\ probe.pids_current = ReadOk(NumText(MaxLimit))
    /\ count = 1

\* the number a file holds, when it holds one
IsNum(f) == f.kind = "ok" /\ f.text.tok = "num"

\* min(threads_max, NPROC, NOFILE) of the probe
RawCount == Min(Min(probe.threads_max.text.val, probe.nproc.v), nofile.v)

\* C10: with no explicit count the replica count is max(floor(c / 4), 1) for
\* c = min(threads_max, NPROC, NOFILE), c being bounded further by
\* pids.max - pids.current when both are numbers, by pids.max when it is a
\* number and pids.current is missing, and not at all when pids.max is no
\* number.
C10_DerivedCount ==
    (pc = "controllers" /\ args_count = 0) =>
        IF IsNum(probe.pids_max) /\ IsNum(probe.pids_current)
        THEN count = Max(Min(RawCount, probe.pids_max.text.val
                                       - probe.pids_current.text.val) \div 4, 1)
        ELSE IF IsNum(probe.pids_max) /\ probe.pids_current.kind = "notfound"
        THEN count = Max(Min(RawCount, probe.pids_max.text.val) \div 4, 1)
        ELSE IF ~IsNum(probe.pids_max)
        THEN count = Max(RawCount \div 4, 1)
        ELSE TRUE

\* the pids headroom is what keeps the count at 1 instead of 2
C10_Witness ==
    /\ pc = "controllers"
    /\ args_count = 0
    /\ IsNum(probe.pids_max) /\ IsNum(probe.pids_current)
    /\ RawCount \div 4 = 2
    /\ probe.pids_max.text.val - probe.pids_current.text.val < 4
    /\ probe.pids_current.text.val > 0
    /\ count = 1

\* C11: when pids.max reads as the unlimited sentinel "max", the replica
\* count is the one computed from threads_max, NPROC and NOFILE alone,
\* whatever pids.current is (a number, other contents, missing, unreadable),
\* and no contents of pids.current makes the derivation fail.
C11_UnlimitedPidsMaxSkipsBound ==
    (args_count = 0 /\ probe.pids_max = ReadOk(MaxText)) =>
        /\ pc = "controllers" => count = Max(RawCount \div 4, 1)
        /\ pc = "err" => err \in {"failed to read /proc/sys/kernel/threads-max",
                                  "failed to parse /proc/sys/kernel/threads-max contents",
                                  "failed to get NPROC rlimit"}

\* pids.max is "max", pids.current is above every limit, and the count is
\* the unreduced 2
C11_Witness ==
    /\ pc = "controllers"
    /\ args_count = 0
    /\ probe.pids_max = ReadOk(MaxText)
    /\ probe.pids_current = ReadOk(NumText(MaxLimit))
    /\ RawCount \div 4 = 2
    /\ count = 2

\* C12: the enable string lists the supported controllers the file offers in
\* the fixed order cpuset, cpu, pids, whatever the order of the file: for the
\* names pids, cpu, cpuset in any order it is "+cpuset +cpu +pids"
C12_EnableStringFixedOrder ==
    [][pc = "fold" =>
          LET in(c) == \E a \in DOMAIN controllers : controllers[a] = c
              t1 == IF in("cpuset") THEN PushController(<<>>, "cpuset") ELSE <<>>
              t2 == IF in("cpu") THEN PushController(t1, "cpu") ELSE t1
              t3 == IF in("pids") THEN PushController(t2, "pids") ELSE t2
          IN  controllers' = t3]_vars

\* C13 as stated: with the pooling strategy every count knob is its override
\* when a well-formed one is set and replica_count x 4 otherwise, for every
\* replica_count, also those whose product is beyond the range of the knob
C13_PoolKnobsTimesFour ==
    strategy = "Pooling" =>
        \A k \in Knobs :
            IF getenv(env[k]).some
            THEN pool[k] = env[k].text.val
            ELSE pool[k] % 4 = 0 /\ pool[k] \div 4 = count

\* C13: with the pooling strategy every count knob is its override when a
\* well-formed one is set; otherwise (unset, not UTF-8 or malformed) it is
\* replica_count x 4 when that product is within the range of the knob and
\* the largest value of the knob when it is not.  A knob depends on no other
\* knob's override.
C13_PoolKnobs ==
    strategy = "Pooling" =>
        \A k \in Knobs :
            IF env[k].kind = "text" /\ env[k].text.tok = "num"
               /\ ~env[k].text.nl /\ env[k].text.val <= U32_MAX
            THEN pool[k] = env[k].text.val
            ELSE pool[k] = IF count <= U32_MAX \div 4 THEN count * 4 ELSE U32_MAX

\* a count whose product is out of range, with one knob overridden, one
\* override malformed and the others unset
C13_Witness ==
    /\ pc = "spawn" /\ strategy = "Pooling"
    /\ count = U32_MAX \div 4 + 1
    /\ env["total_memories"] = EnvText(Trim(NumText(3)))
    /\ env["total_tables"] = EnvText(NumText(3))
    /\ pool["total_memories"] = 3
    /\ pool["total_tables"] = U32_MAX
    /\ pool["total_stacks"] = U32_MAX

\* C14: with an explicit count nothing is probed: NOFILE, NPROC, threads-max
\* and the pids files are not read, no failure of a probe ends startup, and
\* the replica count is the supplied value
C14_ExplicitCountSkipsProbing ==
    args_count # 0 =>
        /\ nofile = RlimErr
        /\ probe = NoProbe
        /\ pc = "err" => err \notin {"failed to get NOFILE rlimit",
                                     "failed to get NPROC rlimit",
                                     "failed to read /proc/sys/kernel/threads-max",
                                     "failed to parse /proc/sys/kernel/threads-max contents",
                                     "failed to parse pids file contents"}
        /\ pc = "controllers" => count = args_count

\* the operations on the root and on cgwasm, in the order of the program
FullHier == <<"root.subtree_control", "mid.create", "mid.type", "mid.procs",
              "mid.subtree_control">>

\* C15: the root's subtree-control write, the creation of cgwasm, its
\* threaded marking, the addition of the pid and the subtree-control write of
\* cgwasm happen once each, in that order, and before any worker is spawned
\* or touches its leaf; a failure of one of them ends the run with no worker
\* spawned; and every leaf is created, then marked threaded, and only then
\* joined by the worker's thread
C15_HierarchyOrdering ==
    /\ [](/\ \E n \in 0 .. Len(FullHier) : hier = SubSeq(FullHier, 1, n)
          /\ \A w \in Workers :
                (wpc[w] # "none" \/ leaf[w] # "none") => hier = FullHier
          /\ hier # FullHier => i = 0)
    /\ [][\A w \in Workers :
              leaf'[w] # leaf[w] =>
                  <<leaf[w], leaf'[w]>> \in {<<"none", "created">>,
                                            <<"created", "typed">>,
                                            <<"typed", "joined">>}]_vars

\* a worker has joined its leaf while another has only created its own
C15_Witness ==
    /\ hier = FullHier
    /\ \E v, w \in Workers : leaf[v] = "joined" /\ leaf[w] = "created"

\* C16: the user namespace is unshared once, by the process, before the
\* threads of the scheduler or of a replica exist; a replica unshares its
\* namespaces only after its thread id is in its leaf; and a worker waits
\* for, instantiates or runs the module only with its leaf joined and its
\* namespaces unshared
C16_NamespaceOrdering ==
    /\ user_ns <= 1
    /\ (sched \/ Spawned # {}) => user_ns = 1
    /\ \A w \in Workers :
          /\ ns[w] => leaf[w] = "joined"
          /\ (wpc[w] \in {"recv", "inst", "run"} \/ got[w] # <<>> \/ res[w] # "none")
                => (leaf[w] = "joined" /\ ns[w])

\* a replica runs the module in its own namespaces
C16_Witness ==
    /\ user_ns = 1 /\ sched
    /\ \E w \in Workers : wpc[w] = "run" /\ ns[w] /\ leaf[w] = "joined"

\* the errors of Component::new and of the pre-instantiation
CompileErrors == {"failed to compile component", "failed to link WASI",
                  "failed to pre-instantiate component",
                  "component does not export wasi:cli/command"}

\* C17: the module is compiled at most once, once in every run that gets
\* past the spawn loop, and only when every spawn attempt has been made (the
\* loop ran to count or was left at a failed spawn, and nothing is spawned
\* afterwards); when the compilation or the pre-instantiation fails, the run
\* ends with an error, nothing was broadcast and no worker has received the
\* module, instantiated it or run it
C17_CompileOnceAfterSpawns ==
    /\ [](/\ compiled <= 1
          /\ compiled = 1 <=> pc \in {"link", "send", "join", "ok"}
                              \/ (pc = "err" /\ err \in CompileErrors
                                                        \cup {"Wasm receiver closed",
                                                              "thread failed",
                                                              "thread panicked"})
          /\ compiled = 1 => (i = count \/ spawn_failed)
          /\ (pc = "err" /\ err \in CompileErrors) =>
                /\ wasm_buf = <<>>
                /\ \A w \in Workers :
                      /\ wpc[w] \notin {"inst", "run", "signal", "return"}
                      /\ got[w] = <<>> /\ res[w] = "none")
    /\ [][/\ compiled' # compiled => pc = "compile"
          /\ compiled = 1 => i' = i]_vars

\* the compilation failed with a worker waiting for the module
C17_Witness ==
    /\ pc = "err" /\ err = "failed to compile component"
    /\ compiled = 1
    /\ \E w \in Workers : wpc[w] = "recv"

\* C18: on every path by which a spawned worker ends without a panic (the
\* entry point returned, instantiation or run failed, or a step of its set-up
\* failed) the worker has sent on its completion channel, and did so before
\* its thread returned
C18_EveryEndSendsOnce ==
    \A w \in Workers :
        /\ (wpc[w] = "ended" /\ ret[w] # "panic") => done[w] = "sent"
        /\ wpc[w] = "return" => done[w] = "sent"

\* C19: a pids.max or pids.current that cannot be read (missing, or any
\* other read error) never ends startup, and the outcome is the one of the
\* same probe with the unreadable file absent: with a numeric pids.max and an
\* unreadable pids.current the count is bounded by pids.max itself
C19_UnreadablePidsFileAsAbsent ==
    LET absent(f) == IF f.kind = "ok" THEN f ELSE ReadNotFound
        b == [probe EXCEPT !.pids_max = absent(@), !.pids_current = absent(@)]
        d == DeriveCount(b, nofile.v)
    IN  (args_count = 0 /\ nofile.ok
         /\ (probe.pids_max.kind # "ok" \/ probe.pids_current.kind # "ok")) =>
            /\ pc = "controllers" => (d.ok /\ count = d.v)
            /\ (pc = "err" /\ err = "failed to parse pids file contents")
                  => (~d.ok /\ d.cause = err)

\* C20: the join results are awaited in the order of the worker indices and
\* main returns at the first that is an error: the error the run ends with
\* is the one of the lowest-indexed worker whose join result is an error,
\* every worker of a lower index has ended and was joined without error by
\* then, and no result is passed over
C20_JoinInIndexOrder ==
    /\ [](/\ (pc = "err" /\ err \in {"thread failed", "thread panicked"}) =>
                /\ j < i
                /\ ret[j] = (IF err = "thread panicked" THEN "panic" ELSE "Err")
                /\ \A k \in 0 .. (j - 1) : ret[k] = "Ok"
          /\ \A k \in 0 .. (j - 1) : wpc[k] = "ended" /\ jpc[k] = "ok"
          /\ pc = "ok" => j = i)
    /\ [][j' # j => (pc = "join" /\ j' = j + 1 /\ jpc[j] = "ok")]_vars

\* the run ends with the error of worker 0 although worker 1 has failed too,
\* with another error
C20_Witness ==
    /\ pc = "err" /\ err = "thread failed"
    /\ j = 0 /\ ret[0] = "Err"
    /\ jpc[1] = "err_panic"
====
